---- MODULE Spec2Model ----
\* State-graph engine of rag_resume (agentic/backends/langchain/graph.py) with the
\* ChangeSet algebra (changeset.py), run on the graphs of
\* tests/unit/agentic/backend/test_graph.py and pipelines/resume_builder.py.
\*
\* LangchainGraph hands the compiled topology to langgraph, which executes it in
\* supersteps: every node scheduled in a superstep reads the channel values of
\* the superstep's start, the nodes of one superstep complete in any order, and
\* when the last one has completed their writes are reduced into the channels
\* (per field, through the reducer annotated on the state type) and the targets
\* of their edges form the next superstep.  A run ends when a superstep
\* schedules nothing.
EXTENDS Integers, Sequences, FiniteSets, TLC

\* ---------------------------------------------------------------- bounds
\* initial states have visits in 0..MaxVisits; a batch has at most MaxBatch states;
\* the values a change is applied to and carries are 0..MaxValue
MaxVisits == 0
MaxBatch == 2
MaxValue == 2

\* ---------------------------------------------------------------- changeset.py
NoChange == [kind |-> "NoChange"]
OverwriteChange(new) == [kind |-> "OverwriteChange", new |-> new]
ReducerChange(reducer) == [kind |-> "ReducerChange", reducer |-> reducer]
\* a value that is not one of the three ChangeSet classes
Value(v) == [kind |-> "value", value |-> v]

\* the reducers: test_graph.py:52 `lambda current: current + 1`, and the mock
\* of test_changeset.py that returns its return_value whatever it is called with
increment(current) == current + 1
lambda_increment == [name |-> "increment"]
Mock(return_value) == [name |-> "Mock", return_value |-> return_value]
CallReducer(reducer, current) ==
  CASE reducer.name = "increment" -> increment(current)
    [] reducer.name = "Mock" -> reducer.return_value

\* a ReducerChange whose reducer is never called
apply_without_reducer(change, current) ==
  CASE change.kind = "NoChange" -> current
    [] change.kind = "OverwriteChange" -> change.new
    [] change.kind = "ReducerChange" -> current

\* a NoChange that resets the value
apply_no_change_resets(change, current) ==
  CASE change.kind = "NoChange" -> 0
    [] change.kind = "OverwriteChange" -> change.new
    [] change.kind = "ReducerChange" -> CallReducer(change.reducer, current)

\* an OverwriteChange that keeps the current value
apply_overwrite_keeps(change, current) ==
  CASE change.kind = "NoChange" -> current
    [] change.kind = "OverwriteChange" -> current
    [] change.kind = "ReducerChange" -> CallReducer(change.reducer, current)

\* NoChange.apply / OverwriteChange.apply / ReducerChange.apply
apply(change, current) ==
  CASE change.kind = "NoChange" -> current
    [] change.kind = "OverwriteChange" -> change.new
    [] change.kind = "ReducerChange" -> CallReducer(change.reducer, current)

\* a ReducerChange that calls its reducer twice
reducer_calls_twice(change, current) ==
  IF change.kind = "ReducerChange"
    THEN << [callee |-> "reducer", of |-> change, args |-> << current >>],
            [callee |-> "reducer", of |-> change, args |-> << current >>] >>
    ELSE << >>

\* the calls a reducer mock records during change.apply(current)
reducer_calls(change, current) ==
  IF change.kind = "ReducerChange"
    THEN << [callee |-> "reducer", of |-> change, args |-> << current >>] >>
    ELSE << >>

\* the default_change callables: the default lambda builds an OverwriteChange;
\* "NoChange" is `lambda _: NoChange()`, and a mock factory returns its
\* return_value (here a ReducerChange) whatever it is called with
CallDefaultChange(default_change, v) ==
  CASE default_change = "OverwriteChange" -> OverwriteChange(v)
    [] default_change = "NoChange" -> NoChange
    [] default_change = "mock_change_factory" -> ReducerChange(lambda_increment)

IsChangeSet(new) == new.kind \in {"NoChange", "OverwriteChange", "ReducerChange"}

\* changeset.py:71-72
ValueError ==
  [type |-> "ValueError",
   msg |-> "New value was expected to be a ChangeSet type(NoChange, OverwriteChange, ReducerChange)"]
NoError == [type |-> "none", msg |-> ""]

\* an apply_changeset that returns current for a ChangeSet without applying it
apply_changeset_skips_change(current, new, default_change, raise_exception_on_unrecognized) ==
  IF IsChangeSet(new)
    THEN [raised |-> FALSE, error |-> NoError, value |-> current]
    ELSE IF raise_exception_on_unrecognized
      THEN [raised |-> TRUE, error |-> ValueError, value |-> current]
      ELSE [raised |-> FALSE, error |-> NoError,
            value |-> apply(CallDefaultChange(default_change, new.value), current)]

\* an apply_changeset that overwrites whatever default_change is supplied
apply_changeset_ignores_default(current, new, default_change, raise_exception_on_unrecognized) ==
  IF IsChangeSet(new)
    THEN [raised |-> FALSE, error |-> NoError, value |-> apply(new, current)]
    ELSE IF raise_exception_on_unrecognized
      THEN [raised |-> TRUE, error |-> ValueError, value |-> current]
      ELSE [raised |-> FALSE, error |-> NoError, value |-> new.value]

\* an apply_changeset that applies the default change in strict mode too
apply_changeset_lenient(current, new, default_change, raise_exception_on_unrecognized) ==
  IF IsChangeSet(new)
    THEN [raised |-> FALSE, error |-> NoError, value |-> apply(new, current)]
    ELSE [raised |-> FALSE, error |-> NoError,
          value |-> apply(CallDefaultChange(default_change, new.value), current)]

\* an apply_changeset that looks at the flag before it looks at the class of new
apply_changeset_strict_first(current, new, default_change, raise_exception_on_unrecognized) ==
  IF raise_exception_on_unrecognized
    THEN [raised |-> TRUE, error |-> ValueError, value |-> current]
    ELSE IF IsChangeSet(new)
      THEN [raised |-> FALSE, error |-> NoError, value |-> apply(new, current)]
      ELSE [raised |-> FALSE, error |-> NoError,
            value |-> apply(CallDefaultChange(default_change, new.value), current)]

\* apply_changeset: [raised, error, value]; value is meaningful when raised is FALSE
apply_changeset(current, new, default_change, raise_exception_on_unrecognized) ==
  IF IsChangeSet(new)
    THEN [raised |-> FALSE, error |-> NoError, value |-> apply(new, current)]
    ELSE IF raise_exception_on_unrecognized
      THEN [raised |-> TRUE, error |-> ValueError, value |-> current]
      ELSE [raised |-> FALSE, error |-> NoError,
            value |-> apply(CallDefaultChange(default_change, new.value), current)]

\* an apply_changeset that builds the default change before it looks at the flag
apply_changeset_calls_default_first(current, new, default_change, raise_exception_on_unrecognized) ==
  IF IsChangeSet(new)
    THEN << [callee |-> "apply", of |-> new, args |-> << current >>] >>
         \o reducer_calls(new, current)
    ELSE LET default_change_impl == CallDefaultChange(default_change, new.value)
         IN IF raise_exception_on_unrecognized
              THEN << [callee |-> "default_change", of |-> default_change,
                       args |-> << new.value >>] >>
              ELSE << [callee |-> "default_change", of |-> default_change,
                       args |-> << new.value >>],
                      [callee |-> "apply", of |-> default_change_impl, args |-> << current >>] >>
                   \o reducer_calls(default_change_impl, current)

\* the calls apply_changeset makes, in order, as mocks of default_change, of the
\* change's apply and of its reducer record them
apply_changeset_calls(current, new, default_change, raise_exception_on_unrecognized) ==
  IF IsChangeSet(new)
    THEN << [callee |-> "apply", of |-> new, args |-> << current >>] >>
         \o reducer_calls(new, current)
    ELSE IF raise_exception_on_unrecognized
      THEN << >>
      ELSE LET default_change_impl == CallDefaultChange(default_change, new.value)
           IN << [callee |-> "default_change", of |-> default_change, args |-> << new.value >>],
                 [callee |-> "apply", of |-> default_change_impl, args |-> << current >>] >>
              \o reducer_calls(default_change_impl, current)

\* ---------------------------------------------------------------- graphs/edges.py
START == "START"
END == "END"
CommonGraphSteps == {START, END}
GraphEdge(start, end) == [type |-> "GraphEdge", start |-> start, end |-> end]
DynamicGraphEdge(start, end) == [type |-> "DynamicGraphEdge", start |-> start, end |-> end]

\* ---------------------------------------------------------------- test_graph.py
SimpleTestGraphStep == {"One", "Two", "Three"}
Fields == {"visits", "should_end"}
\* instances of the two dataclasses; a plain mapping of the fields has no class
SimpleTestGraphState(visits, should_end) ==
  [class |-> "SimpleTestGraphState", visits |-> visits, should_end |-> should_end]
SimpleTestGraphUpdate(visits, should_end) ==
  [class |-> "SimpleTestGraphUpdate", visits |-> visits, should_end |-> should_end]
iterate_state(state) == SimpleTestGraphUpdate(ReducerChange(lambda_increment), NoChange)

\* an action that leaves the visits alone and sets should_end
mark_should_end(state) == SimpleTestGraphUpdate(NoChange, OverwriteChange(TRUE))
\* an action that overwrites the visits with a value of its own
overwrite_visits(new) == SimpleTestGraphUpdate(OverwriteChange(new), NoChange)
States == {SimpleTestGraphState(v, e) : v \in 0..MaxVisits, e \in BOOLEAN}

simple_graph_test_case ==
  << GraphEdge(START, "One"), GraphEdge("One", "Two"),
     GraphEdge("Two", "Three"), GraphEdge("Three", END) >>
dynamic_simple_graph_test_case ==
  << DynamicGraphEdge(START, "end_if_should_end"), GraphEdge("One", "Two"),
     GraphEdge("Two", "Three"), GraphEdge("Three", END) >>
looped_graph_case ==
  << GraphEdge(START, "One"), DynamicGraphEdge("One", "end_if_visited"),
     GraphEdge("Two", "Three"), GraphEdge("Three", "One") >>
parallel_graph_case ==
  << GraphEdge(START, "One"), GraphEdge(START, "Two"),
     GraphEdge("Two", "Three"), GraphEdge("Three", END) >>
\* the fan-out / fan-in shape: both branches lead to Three
diamond_graph_case ==
  << GraphEdge(START, "One"), GraphEdge(START, "Two"), GraphEdge("One", "Three"),
     GraphEdge("Two", "Three"), GraphEdge("Three", END) >>
\* the edges of ResumeBuilderPipeline: the first step leads both to the second and to END
resume_builder_edges ==
  << GraphEdge(START, "One"), GraphEdge("One", "Two"), GraphEdge("One", END) >>

\* descriptors that go wrong.  Four is a step of another enumeration, not a
\* member of steps_type: its name is registered for no node
UndeclaredStep == "Four"
\* an edge that ends at, an edge that starts at and a dynamic edge that starts
\* at the undeclared step
undeclared_end_case ==
  << GraphEdge(START, "One"), GraphEdge("One", UndeclaredStep) >>
undeclared_start_case ==
  << GraphEdge(START, "One"), GraphEdge("One", END), GraphEdge(UndeclaredStep, END) >>
undeclared_dynamic_start_case ==
  << GraphEdge(START, "One"), GraphEdge("One", END),
     DynamicGraphEdge(UndeclaredStep, "end_if_should_end") >>
\* a decision that returns the undeclared step, and one that returns START
dynamic_undeclared_case ==
  << GraphEdge(START, "One"), DynamicGraphEdge("One", "undeclared_if_should_end"),
     GraphEdge("Two", "Three"), GraphEdge("Three", END) >>
dynamic_start_case ==
  << GraphEdge(START, "One"), DynamicGraphEdge("One", "start_if_should_end"),
     GraphEdge("Two", "Three"), GraphEdge("Three", END) >>
\* a descriptor without an edge from START, and one in which no path leads to END
no_start_case == << GraphEdge("One", "Two"), GraphEdge("Two", END) >>
no_end_case == << GraphEdge(START, "One"), GraphEdge("One", "Two") >>
\* failing: the linear graph whose second action raises; parallel_failing: the
\* parallel graph in which One, scheduled together with Two, raises
ErrorCaseNames ==
  {"undeclared_end", "undeclared_start", "undeclared_dynamic_start",
   "dynamic_undeclared", "dynamic_start", "failing", "parallel_failing",
   "no_start", "no_end"}

\* graph.invoke is called without a config: the library's default limit on the
\* supersteps of one run applies
recursion_limit == 25
GraphRecursionError ==
  [type |-> "GraphRecursionError",
   msg |-> "Recursion limit of 25 reached without hitting a stop condition"]

\* a cycle whose decision never returns END, and the loop of the tests with a
\* threshold that takes more supersteps than the library's default limit
forever_graph_case ==
  << GraphEdge(START, "One"), DynamicGraphEdge("One", "always_two"),
     GraphEdge("Two", "Three"), GraphEdge("Three", "One") >>
long_looped_graph_case ==
  << GraphEdge(START, "One"), DynamicGraphEdge("One", "end_if_visited_often"),
     GraphEdge("Two", "Three"), GraphEdge("Three", "One") >>
LoopCaseNames == {"forever", "long_looped"}

\* a fan-out at One whose branches to Three have different lengths: One->Three
\* and One->Two->Three
uneven_graph_case ==
  << GraphEdge(START, "One"), GraphEdge("One", "Two"), GraphEdge("One", "Three"),
     GraphEdge("Two", "Three"), GraphEdge("Three", END) >>
\* disjoint: the fan-out / fan-in shape whose siblings write different fields,
\* One the visits and Two should_end
FanCaseNames == {"uneven", "disjoint", "diamond"}
\* the fan-out / fan-in shape whose siblings overwrite the same field: One
\* writes visits=10 and Two visits=20 in conflict, the other way round in
\* conflict_swapped
ConflictCaseNames == {"conflict", "conflict_swapped"}

\* simple_async: the linear graph with `async def` actions (AsyncGraphAction)
CaseNames ==
  {"simple", "dynamic", "looped", "parallel", "diamond", "resume_builder", "simple_async"}
graph_edges(name) ==
  CASE name = "simple" -> simple_graph_test_case
    [] name = "simple_async" -> simple_graph_test_case
    [] name = "dynamic" -> dynamic_simple_graph_test_case
    [] name = "looped" -> looped_graph_case
    [] name = "parallel" -> parallel_graph_case
    [] name = "diamond" -> diamond_graph_case
    [] name = "resume_builder" -> resume_builder_edges
    [] name = "undeclared_end" -> undeclared_end_case
    [] name = "undeclared_start" -> undeclared_start_case
    [] name = "undeclared_dynamic_start" -> undeclared_dynamic_start_case
    [] name = "dynamic_undeclared" -> dynamic_undeclared_case
    [] name = "dynamic_start" -> dynamic_start_case
    [] name = "failing" -> simple_graph_test_case
    [] name = "parallel_failing" -> parallel_graph_case
    [] name = "no_start" -> no_start_case
    [] name = "no_end" -> no_end_case
    [] name = "forever" -> forever_graph_case
    [] name = "long_looped" -> long_looped_graph_case
    [] name = "uneven" -> uneven_graph_case
    [] name = "disjoint" -> diamond_graph_case
    [] name = "conflict" -> diamond_graph_case
    [] name = "conflict_swapped" -> diamond_graph_case

\* the decision lambdas of the dynamic edges; start is the state the looped case captured
CallDynamic(fn, state, start) ==
  CASE fn = "end_if_should_end" -> IF state.should_end THEN END ELSE "One"
    [] fn = "end_if_visited" -> IF state.visits > start.visits + 3 THEN END ELSE "Two"
    [] fn = "undeclared_if_should_end" -> IF state.should_end THEN UndeclaredStep ELSE "Two"
    [] fn = "start_if_should_end" -> IF state.should_end THEN START ELSE "Two"
    [] fn = "always_two" -> "Two"
    [] fn = "end_if_visited_often" ->
         IF state.visits > start.visits + 3 * recursion_limit THEN END ELSE "Two"

\* ParameterizedTestGraph: the descriptor handed to the engine
ParameterizedTestGraph(name, start) ==
  [name |-> name, start |-> start, graph_edges |-> graph_edges(name),
   implementation |-> [step \in SimpleTestGraphStep |->
                         IF name = "simple_async" THEN "async_iterate_state"
                         ELSE IF \/ name = "failing" /\ step = "Two"
                                 \/ name = "parallel_failing" /\ step = "One"
                           THEN "raise_error"
                         ELSE IF name = "disjoint" /\ step = "Two" THEN "mark_should_end"
                         ELSE IF \/ name = "conflict" /\ step = "One"
                                 \/ name = "conflict_swapped" /\ step = "Two"
                           THEN "overwrite_visits_10"
                         ELSE IF \/ name = "conflict" /\ step = "Two"
                                 \/ name = "conflict_swapped" /\ step = "One"
                           THEN "overwrite_visits_20"
                         ELSE "iterate_state"],
   steps_type |-> SimpleTestGraphStep]
implementation_for(impl, step) == impl.implementation[step]
\* the lookup in the implementation dict, for any step it is asked about
KeyError(step) == [type |-> "KeyError", msg |-> step]
ParameterizedTestGraph_implementation_for(impl, step) ==
  IF step \in DOMAIN impl.implementation
    THEN [raised |-> FALSE, error |-> NoError, value |-> impl.implementation[step]]
  ELSE [raised |-> TRUE, error |-> KeyError(step), value |-> "none"]

ResumeBuilderSteps == {"LOOKUP_EXPERIENCE", "GENERATE_BULLET_POINTS"}
\* typing.assert_never(step)
AssertionError(step) ==
  [type |-> "AssertionError", msg |-> "Expected code to be unreachable, but got: " \o step]
\* a match whose last case does nothing: the method returns None
ResumeBuilderPipeline_implementation_for_falls_through(step) ==
  CASE step = "LOOKUP_EXPERIENCE" -> [raised |-> FALSE, error |-> NoError, value |-> "lookup"]
    [] step = "GENERATE_BULLET_POINTS" ->
         [raised |-> FALSE, error |-> NoError, value |-> "generate"]
    [] OTHER -> [raised |-> FALSE, error |-> NoError, value |-> "None"]
\* ResumeBuilderPipeline.implementation_for
ResumeBuilderPipeline_implementation_for(step) ==
  CASE step = "LOOKUP_EXPERIENCE" -> [raised |-> FALSE, error |-> NoError, value |-> "lookup"]
    [] step = "GENERATE_BULLET_POINTS" ->
         [raised |-> FALSE, error |-> NoError, value |-> "generate"]
    [] OTHER -> [raised |-> TRUE, error |-> AssertionError(step), value |-> "none"]
\* GraphAction.__call__ / awaiting AsyncGraphAction.__call__
CallAction(action, state) ==
  CASE action = "iterate_state" -> iterate_state(state)
    [] action = "async_iterate_state" -> iterate_state(state)
    [] action = "mark_should_end" -> mark_should_end(state)
    [] action = "overwrite_visits_10" -> overwrite_visits(10)
    [] action = "overwrite_visits_20" -> overwrite_visits(20)
\* implementation_for may return a coroutine function
IsAsync(action) == action = "async_iterate_state"
\* an action whose collaborator fails: it raises and returns no update
ActionRaises(action) == action = "raise_error"
CollaboratorError == [type |-> "CollaboratorError", msg |-> "collaborator failed"]

\* ---------------------------------------------------------------- backends/langchain/graph.py
LG_START == "__start__"
LG_END == "__end__"
node_name_overrides == [x \in CommonGraphSteps |-> IF x = START THEN LG_START ELSE LG_END]
\* node_name_overrides.get(x, x.name); the name of a step is the step itself
NodeName(x) == IF x \in DOMAIN node_name_overrides THEN node_name_overrides[x] ELSE x

\* _build_lang_graph called with a table of its own: None, a table that renames
\* the sentinels, a table that renames a step and leaves the sentinels out
NoOverrides == << >>
OverrideTables ==
  {NoOverrides, [x \in CommonGraphSteps |-> IF x = START THEN "begin" ELSE "finish"],
   [x \in {"One"} |-> "first"]}
\* node_name_overrides or {START: START, END: END}, the table of one build
effective_overrides(given) == IF given = NoOverrides THEN node_name_overrides ELSE given
\* table.get(x, x.name)
get(table, x) == IF x \in DOMAIN table THEN table[x] ELSE x
\* the name under which x is added as a node or as an end of a static edge
registered_name(given, x) == get(effective_overrides(given), x)
\* a wrapper that always resolves through the default table
returned_name_default_table(given, x) == get(node_name_overrides, x)
\* the name wrapped() returns when the decision returns x: the build hands its
\* own table to _wrap_dynamic_call_return
returned_name(given, x) == get(effective_overrides(given), x)

\* the callable registered for a dynamic edge: the decision, then the name table
wrap_dynamic_call_return(edge, state, start) == NodeName(CallDynamic(edge, state, start))

Range(seq) == {seq[i] : i \in DOMAIN seq}
RECURSIVE SetToSeq(_)
SetToSeq(set) ==
  IF set = {} THEN << >>
  ELSE LET x == CHOOSE y \in set : TRUE IN << x >> \o SetToSeq(set \ {x})

\* a build that registers the static edges only
build_lang_graph_static_only(impl) ==
  [nodes |-> [n \in {NodeName(step) : step \in impl.steps_type} |->
                implementation_for(impl, CHOOSE step \in impl.steps_type : NodeName(step) = n)],
   edges |-> {<<NodeName(e.start), NodeName(e.end)>> :
                e \in {x \in Range(impl.graph_edges) : x.type = "GraphEdge"}},
   branches |-> {},
   resolved |-> [step \in impl.steps_type |-> 1]]

\* a build that keeps one static edge per start, the last one declared
build_lang_graph_edge_per_start(impl) ==
  [nodes |-> [n \in {NodeName(step) : step \in impl.steps_type} |->
                implementation_for(impl, CHOOSE step \in impl.steps_type : NodeName(step) = n)],
   edges |-> {<<NodeName(impl.graph_edges[i].start), NodeName(impl.graph_edges[i].end)>> :
                i \in {k \in DOMAIN impl.graph_edges :
                         /\ impl.graph_edges[k].type = "GraphEdge"
                         /\ \A j \in DOMAIN impl.graph_edges :
                              (j > k /\ impl.graph_edges[j].type = "GraphEdge")
                                => impl.graph_edges[j].start # impl.graph_edges[k].start}},
   branches |-> {<<NodeName(e.start), e.end>> :
                e \in {x \in Range(impl.graph_edges) : x.type = "DynamicGraphEdge"}},
   resolved |-> [step \in impl.steps_type |-> 1]]

\* what compile raises on an edge to or from a name that is no node, and on a
\* graph in which nothing starts at START
UnknownNodeError == [type |-> "ValueError", msg |-> "Found edge at unknown node"]
EntrypointError == [type |-> "ValueError", msg |-> "Graph must have an entrypoint"]

\* a compile that validates nothing
compile_unchecked(builder) == [raised |-> FALSE, error |-> NoError, graph |-> builder]

\* a compile that does not ask for an edge from START
compile_without_entrypoint(builder) ==
  LET names == DOMAIN builder.nodes
      sources == {e[1] : e \in builder.edges} \cup {b[1] : b \in builder.branches}
      targets == {e[2] : e \in builder.edges}
      known == /\ sources \subseteq names \cup {LG_START}
               /\ targets \subseteq names \cup {LG_END}
  IN [raised |-> ~known, error |-> IF known THEN NoError ELSE UnknownNodeError,
      graph |-> builder]

\* builder.compile(): raises unless every edge and every branch starts at a node
\* or at START, one of them starts at START, and every edge ends at a node or
\* at END; that END can be reached is not looked at
compile(builder) ==
  LET names == DOMAIN builder.nodes
      sources == {e[1] : e \in builder.edges} \cup {b[1] : b \in builder.branches}
      targets == {e[2] : e \in builder.edges}
      known == /\ sources \subseteq names \cup {LG_START}
               /\ targets \subseteq names \cup {LG_END}
  IN [raised |-> ~(known /\ LG_START \in sources),
      error |-> IF ~known THEN UnknownNodeError
                ELSE IF LG_START \notin sources THEN EntrypointError
                ELSE NoError,
      graph |-> builder]
\* what a branch raises when its decision resolves to the name of START
BranchError == [type |-> "ValueError", msg |-> "Branch did not return a valid destination"]

\* a build that takes every entry that is no dynamic edge for a static edge
build_lang_graph_any_entry(impl) ==
  [nodes |-> [n \in {NodeName(step) : step \in impl.steps_type} |->
                implementation_for(impl, CHOOSE step \in impl.steps_type : NodeName(step) = n)],
   edges |-> {<<NodeName(e.start), NodeName(e.end)>> :
                e \in {x \in Range(impl.graph_edges) : x.type # "DynamicGraphEdge"}},
   branches |-> {<<NodeName(e.start), e.end>> :
                e \in {x \in Range(impl.graph_edges) : x.type = "DynamicGraphEdge"}},
   resolved |-> [step \in impl.steps_type |-> 1]]

\* a build that asks for a step's action again at every edge that leaves the step
build_lang_graph_resolves_per_edge(impl) ==
  [nodes |-> [n \in {NodeName(step) : step \in impl.steps_type} |->
                implementation_for(impl, CHOOSE step \in impl.steps_type : NodeName(step) = n)],
   edges |-> {<<NodeName(e.start), NodeName(e.end)>> :
                e \in {x \in Range(impl.graph_edges) : x.type = "GraphEdge"}},
   branches |-> {<<NodeName(e.start), e.end>> :
                e \in {x \in Range(impl.graph_edges) : x.type = "DynamicGraphEdge"}},
   resolved |-> [step \in impl.steps_type |->
                   1 + Cardinality({i \in DOMAIN impl.graph_edges :
                                      impl.graph_edges[i].start = step})]]

\* _build_lang_graph: one node per step, one edge or branch per entry of
\* graph_edges; resolved counts the calls of implementation_for, one per turn of
\* the loop over steps_type
build_lang_graph(impl) ==
  [nodes |-> [n \in {NodeName(step) : step \in impl.steps_type} |->
                implementation_for(impl, CHOOSE step \in impl.steps_type : NodeName(step) = n)],
   edges |-> {<<NodeName(e.start), NodeName(e.end)>> :
                e \in {x \in Range(impl.graph_edges) : x.type = "GraphEdge"}},
   branches |-> {<<NodeName(e.start), e.end>> :
                e \in {x \in Range(impl.graph_edges) : x.type = "DynamicGraphEdge"}},
   resolved |-> [step \in impl.steps_type |-> 1]]

\* ---------------------------------------------------------------- graph/edges.py, backends/langchain/graph.py
\* the edge classes of the older backend
PipelineEdge(start, end) == [type |-> "PipelineEdge", start |-> start, end |-> end]
DynamicPipelineEdge(start, end) == [type |-> "DynamicPipelineEdge", start |-> start, end |-> end]
\* the older backend's _build_lang_graph: the same loops over its own edge
\* classes, with `case _: pass` for every other entry
LangGraphPipeline_build_lang_graph(impl) ==
  [nodes |-> [n \in {NodeName(step) : step \in impl.steps_type} |->
                implementation_for(impl, CHOOSE step \in impl.steps_type : NodeName(step) = n)],
   edges |-> {<<NodeName(e.start), NodeName(e.end)>> :
                e \in {x \in Range(impl.graph_edges) : x.type = "PipelineEdge"}},
   branches |-> {<<NodeName(e.start), e.end>> :
                e \in {x \in Range(impl.graph_edges) : x.type = "DynamicPipelineEdge"}},
   resolved |-> [step \in impl.steps_type |-> 1]]

\* ---------------------------------------------------------------- backends/langchain/graph.py
\* LangchainGraph.__init__
LangchainGraph(impl) == [impl |-> impl, graph |-> build_lang_graph(impl)]

\* LangchainGraph._to_output_type: state_type(**kwargs)
to_output_type(kwargs) == SimpleTestGraphState(kwargs.visits, kwargs.should_end)

\* the fields of SimpleTestGraphState declared with a default value
FieldDefaults == [should_end |-> FALSE]
UnexpectedKeywordError ==
  [type |-> "TypeError", msg |-> "__init__() got an unexpected keyword argument"]
MissingArgumentError ==
  [type |-> "TypeError", msg |-> "__init__() missing 1 required positional argument"]
\* a constructor that drops the keywords it does not know
state_type_ignores_unknown(kwargs) ==
  IF Fields \ (DOMAIN kwargs \cup DOMAIN FieldDefaults) # {}
    THEN [raised |-> TRUE, error |-> MissingArgumentError, value |-> << >>]
  ELSE [raised |-> FALSE, error |-> NoError,
        value |-> SimpleTestGraphState(kwargs.visits,
                                       IF "should_end" \in DOMAIN kwargs THEN kwargs.should_end
                                       ELSE FieldDefaults.should_end)]
\* self.impl.state_type(**kwargs), the generated __init__ of the dataclass: a
\* keyword that is no field and a field without default that is left out are
\* TypeErrors; a field with a default that is left out takes the default
state_type(kwargs) ==
  IF DOMAIN kwargs \ Fields # {}
    THEN [raised |-> TRUE, error |-> UnexpectedKeywordError, value |-> << >>]
  ELSE IF Fields \ (DOMAIN kwargs \cup DOMAIN FieldDefaults) # {}
    THEN [raised |-> TRUE, error |-> MissingArgumentError, value |-> << >>]
  ELSE [raised |-> FALSE, error |-> NoError,
        value |-> SimpleTestGraphState(kwargs.visits,
                                       IF "should_end" \in DOMAIN kwargs THEN kwargs.should_end
                                       ELSE FieldDefaults.should_end)]
\* the list a method builds from what the graph handed back: the first mapping
\* that state_type refuses ends the call with its error
Converted(results) ==
  LET built == [i \in DOMAIN results |-> state_type(results[i])]
      bad == {i \in DOMAIN results : built[i].raised}
  IN IF bad # {}
       THEN [raised |-> TRUE, value |-> << >>,
             error |-> built[CHOOSE i \in bad : \A j \in bad : i <= j].error]
     ELSE [raised |-> FALSE, error |-> NoError,
           value |-> [i \in DOMAIN results |-> built[i].value]]

\* ---------------------------------------------------------------- the run of a compiled graph
\* the value a reducer channel starts from: int() and bool()
ChannelDefault == [visits |-> 0, should_end |-> FALSE]

\* a merge that takes a field the update leaves alone back to its default
Reduce_resets_unchanged(channels, update) ==
  [f \in Fields |-> IF update[f] = NoChange THEN ChannelDefault[f]
                    ELSE apply_changeset(channels[f], update[f], "OverwriteChange", FALSE).value]

\* the channels after one update: each field through its annotated reducer,
\* apply_changeset(current, new) with its default arguments
Reduce(channels, update) ==
  [f \in Fields |-> apply_changeset(channels[f], update[f], "OverwriteChange", FALSE).value]

\* the writes of a superstep are applied in the order of the names of their nodes
NameOrder == << "One", "Three", "Two", "__start__" >>
Rank(name) == CHOOSE i \in DOMAIN NameOrder : NameOrder[i] = name
RECURSIVE SortWrites(_)
SortWrites(writes) ==
  IF writes = {} THEN << >>
  ELSE LET first == CHOOSE w \in writes : \A v \in writes : Rank(w.node) <= Rank(v.node)
       IN << first >> \o SortWrites(writes \ {first})
\* a merge in which the last write of a superstep replaces the others
ApplyWrites_last_only(channels, writes) ==
  IF writes = << >> THEN channels
  ELSE Reduce(channels, writes[Len(writes)].update)

\* a merge that drops the update of a node that leads nowhere
RECURSIVE ApplyWrites_skips_dead_ends(_, _)
ApplyWrites_skips_dead_ends(channels, writes) ==
  IF writes = << >> THEN channels
  ELSE ApplyWrites_skips_dead_ends(
         IF Head(writes).targets = {} THEN channels
         ELSE Reduce(channels, Head(writes).update), Tail(writes))

RECURSIVE ApplyWrites(_, _)
ApplyWrites(channels, writes) ==
  IF writes = << >> THEN channels
  ELSE ApplyWrites(Reduce(channels, Head(writes).update), Tail(writes))

\* the state of a run when graph.invoke starts it; error, failed, late: the
\* error that ended it, the node that raised it and the nodes invoked since;
\* step: the supersteps of node actions completed; decided: the decisions of
\* the dynamic edges evaluated so far, each with the state it was given
NewRun ==
  [channels |-> ChannelDefault, tasks |-> {LG_START}, writes |-> << >>,
   status |-> "running", reached_end |-> FALSE, invoked_after_end |-> FALSE,
   error |-> NoError, failed |-> "", late |-> {}, step |-> 0, decided |-> << >>]

\* self: the engine; pc, mode, inputs, output: the call in progress and its result;
\* runs, calls, finished: the runs of the call, the node actions they invoked and
\* the order they ended in; ref: the first call of a session that compares calls
\* merge: the last direct call of a change's apply or of apply_changeset
\* error: the error the call in progress raised to its caller
VARIABLES self, pc, mode, inputs, runs, calls, finished, output, ref, merge, error
vars == << self, pc, mode, inputs, runs, calls, finished, output, ref, merge, error >>

NoMerge ==
  [op |-> "none", current |-> 0, new |-> NoChange, default_change |-> "OverwriteChange",
   raise_exception_on_unrecognized |-> FALSE, raised |-> FALSE, error |-> NoError,
   value |-> 0, calls |-> << >>]

NoRef == [mode |-> "none", state |-> SimpleTestGraphState(0, FALSE),
          result |-> SimpleTestGraphState(0, FALSE), calls |-> << >>]

Impls == {ParameterizedTestGraph(name, SimpleTestGraphState(0, FALSE)) :
            name \in CaseNames \ {"looped"}}
         \cup {ParameterizedTestGraph("looped", SimpleTestGraphState(v, FALSE)) :
                 v \in 0..MaxVisits}

\* sequences of at most MaxBatch initial states
RECURSIVE SeqsUpTo(_)
SeqsUpTo(n) ==
  IF n = 0 THEN {<< >>}
  ELSE LET shorter == SeqsUpTo(n - 1)
       IN shorter \cup {Append(q, s) : q \in {x \in shorter : Len(x) = n - 1}, s \in States}

Init ==
  /\ self \in {LangchainGraph(impl) : impl \in Impls}
  /\ pc = "idle"
  /\ mode = "none"
  /\ inputs = << >>
  /\ runs = << >>
  /\ calls = << >>
  /\ finished = << >>
  /\ output = << >>
  /\ ref = NoRef
  /\ merge = NoMerge
  /\ error = NoError

\* the caller hands initial_states to the engine; every state starts its own run
Call(m, initial_states) ==
  /\ pc \in {"idle", "returned", "raised"}
  /\ pc' = "running"
  /\ mode' = m
  /\ inputs' = initial_states
  /\ runs' = [r \in DOMAIN initial_states |-> NewRun]
  /\ calls' = [r \in DOMAIN initial_states |-> << >>]
  /\ finished' = << >>
  /\ output' = << >>
  /\ error' = NoError
  /\ UNCHANGED << self, ref, merge >>

\* one call of one of the four methods on a new engine
invoke == pc = "idle" /\ \E s \in States : Call("invoke", << s >>)
batch == pc = "idle" /\ \E ss \in SeqsUpTo(MaxBatch) : Call("batch", ss)
async_invoke == pc = "idle" /\ \E s \in States : Call("async_invoke", << s >>)
async_batch == pc = "idle" /\ \E ss \in SeqsUpTo(MaxBatch) : Call("async_batch", ss)

\* a node input that is the channel store itself
NodeInput_shared(channels) ==
  [shared |-> TRUE, state |-> SimpleTestGraphState(channels.visits, channels.should_end)]

\* a node reading channels that already hold what its siblings wrote
Snapshot_with_pending(run) == ApplyWrites(run.channels, run.writes)

\* the channels a task of the current superstep reads: the values committed
\* by the previous superstep
Snapshot(run) == run.channels

\* the object a node's action is called with: state_type(**channels), a new
\* instance holding the values of the moment; it does not share the channels
NodeInput(channels) ==
  [shared |-> FALSE, state |-> SimpleTestGraphState(channels.visits, channels.should_end)]
\* what an object handed out earlier holds now
StateOf(object, channels) ==
  IF object.shared THEN SimpleTestGraphState(channels.visits, channels.should_end)
  ELSE object.state

\* what a task writes: the input's fields for the start node, the action's update otherwise
TaskUpdate(r, node, arg) ==
  IF node = LG_START THEN [f \in Fields |-> Value(inputs[r][f])]
  ELSE CallAction(self.graph.nodes[node], arg.state)

\* branches decided on the channels as they were before the task's own update
TaskTargets_stale(graph, start, node, channels, update) ==
  {e[2] : e \in {x \in graph.edges : x[1] = node}}
  \cup {wrap_dynamic_call_return(b[2], NodeInput(channels).state, start) :
          b \in {x \in graph.branches : x[1] = node}}

\* decisions taken on the state the node's action received
TaskDecisions_stale(graph, start, node, channels, update) ==
  {[node |-> node, state |-> NodeInput(channels).state,
    returned |-> wrap_dynamic_call_return(b[2], NodeInput(channels).state, start)] :
     b \in {x \in graph.branches : x[1] = node}}

\* a decision called again on the state its first call led to
TaskDecisions_twice(graph, start, node, channels, update) ==
  LET state == NodeInput(Reduce(channels, update)).state
      again == NodeInput(Reduce(Reduce(channels, update), update)).state
  IN UNION {{[node |-> node, state |-> state,
              returned |-> wrap_dynamic_call_return(b[2], state, start)],
             [node |-> node, state |-> again,
              returned |-> wrap_dynamic_call_return(b[2], again, start)]} :
              b \in {x \in graph.branches : x[1] = node}}

\* the decisions of a completed task's dynamic edges: each is called once, with
\* a new state_type instance of the channels with the task's own update applied
TaskDecisions(graph, start, node, channels, update) ==
  {[node |-> node, state |-> NodeInput(Reduce(channels, update)).state,
    returned |-> wrap_dynamic_call_return(b[2], NodeInput(Reduce(channels, update)).state,
                                          start)] :
     b \in {x \in graph.branches : x[1] = node}}

\* the nodes a completed task schedules: the ends of its edges and what its
\* branches return
TaskTargets(graph, start, node, channels, update) ==
  {e[2] : e \in {x \in graph.edges : x[1] = node}}
  \cup {d.returned : d \in TaskDecisions(graph, start, node, channels, update)}

\* a superstep that led to END and to nothing else leaves nothing to run
NextTasks_end_stops(writes) ==
  IF \E w \in Range(writes) : LG_END \in w.targets THEN {}
  ELSE UNION {w.targets : w \in Range(writes)}

\* the next superstep: every target of the completed tasks; an edge to END adds no task
NextTasks(writes) == UNION {w.targets : w \in Range(writes)} \ {LG_END}
\* a target that is the name of no node is dropped when the writes are applied
Registered(graph, names) == names \cap DOMAIN graph.nodes

\* channels shared by the runs of a batch: every run reduces into the first run's
CommitChannels_shared(rs, r, writes) == ApplyWrites(rs[1].channels, SortWrites(Range(writes)))

\* a superstep that hands over to the next without merging what it wrote
CommitChannels_unmerged(rs, r, writes) == rs[r].channels
\* a superstep of which only the update completed last is merged
CommitChannels_last_completed(rs, r, writes) ==
  Reduce(rs[r].channels, writes[Len(writes)].update)

\* the updates of a superstep merged in the order the tasks completed
CommitChannels_as_completed(rs, r, writes) == ApplyWrites(rs[r].channels, writes)

\* the channels of one run after a superstep; no other run's channels change
CommitChannels(rs, r, writes) == ApplyWrites(rs[r].channels, SortWrites(Range(writes)))

\* what a node without a synchronous function raises when it is called
TypeError == [type |-> "TypeError", msg |-> "No synchronous function provided"]

\* graph.invoke and graph.batch call a node's synchronous function, and a node
\* added from a coroutine function has none; graph.ainvoke and graph.abatch
\* await the coroutine function or run the synchronous one
CanCall(m, action) == m \in {"async_invoke", "async_batch"} \/ ~IsAsync(action)
\* the input node __start__ takes no action of the descriptor
Callable(m, graph, node) ==
  IF node = LG_START THEN TRUE ELSE CanCall(m, graph.nodes[node])

\* the error a task of run r ends with, NoError when it completes: the
\* action's own, or the error of a branch evaluated after the action returned
TaskError(r, node) ==
  IF node # LG_START /\ ActionRaises(self.graph.nodes[node]) THEN CollaboratorError
  ELSE LET arg == NodeInput(Snapshot(runs[r]))
           update == TaskUpdate(r, node, arg)
           targets == TaskTargets(self.graph, self.impl.start, node, Snapshot(runs[r]), update)
       IN IF LG_START \in targets THEN BranchError ELSE NoError

\* one scheduled node of run r completes; the last one of a superstep commits it
RunTask(r, node) ==
  /\ pc = "running"
  /\ runs[r].status = "running"
  /\ node \in runs[r].tasks
  /\ Callable(mode, self.graph, node)
  /\ TaskError(r, node) = NoError
  /\ LET run == runs[r]
         arg == NodeInput(Snapshot(run))
         update == TaskUpdate(r, node, arg)
         targets == TaskTargets(self.graph, self.impl.start, node, Snapshot(run), update)
         decisions == TaskDecisions(self.graph, self.impl.start, node, Snapshot(run), update)
         writes == Append(run.writes, [node |-> node, update |-> update, targets |-> targets])
         rest == run.tasks \ {node}
         next == Registered(self.graph, NextTasks(writes))
         step == IF node = LG_START THEN run.step ELSE run.step + 1
         out_of_steps == next # {} /\ step >= recursion_limit
         seen == [run EXCEPT !.reached_end = @ \/ LG_END \in targets,
                             !.invoked_after_end = @ \/ (node # LG_START /\ run.reached_end),
                             !.decided = @ \o SetToSeq(decisions)]
     IN /\ runs' = [runs EXCEPT ![r] =
                      IF rest # {} THEN [seen EXCEPT !.tasks = rest, !.writes = writes]
                      ELSE [seen EXCEPT !.channels = CommitChannels(runs, r, writes),
                                        !.tasks = next, !.writes = << >>, !.step = step,
                                        !.status = IF next = {} THEN "done"
                                                   ELSE IF out_of_steps THEN "error"
                                                   ELSE "running",
                                        !.error = IF out_of_steps THEN GraphRecursionError
                                                  ELSE NoError]]
        /\ calls' = IF node = LG_START THEN calls
                    ELSE [calls EXCEPT ![r] = Append(@, [node |-> node, object |-> arg])]
        /\ finished' = IF rest = {} /\ next = {} THEN Append(finished, r) ELSE finished
  /\ UNCHANGED << self, pc, mode, inputs, output, ref, merge, error >>

Step == \E r \in DOMAIN runs : \E node \in runs[r].tasks : RunTask(r, node)

\* a scheduled node that cannot be called in this form of call: the run fails
\* with a TypeError before the action is invoked
FailTask(r, node) ==
  /\ pc = "running"
  /\ runs[r].status = "running"
  /\ node \in runs[r].tasks
  /\ ~Callable(mode, self.graph, node)
  /\ runs' = [runs EXCEPT ![r].status = "error", ![r].error = TypeError,
                          ![r].failed = node]
  /\ UNCHANGED << self, pc, mode, inputs, calls, finished, output, ref, merge, error >>

Fail == \E r \in DOMAIN runs : \E node \in runs[r].tasks : FailTask(r, node)

\* a scheduled node's action is invoked and raises, or its branch does: the
\* run fails, its superstep is never committed
RaiseTask(r, node) ==
  /\ pc = "running"
  /\ runs[r].status = "running"
  /\ node \in runs[r].tasks
  /\ Callable(mode, self.graph, node)
  /\ TaskError(r, node) # NoError
  /\ runs' = [runs EXCEPT ![r].status = "error", ![r].error = TaskError(r, node),
                          ![r].failed = node]
  /\ calls' = IF node = LG_START THEN calls
              ELSE [calls EXCEPT ![r] =
                      Append(@, [node |-> node, object |-> NodeInput(Snapshot(runs[r]))])]
  /\ UNCHANGED << self, pc, mode, inputs, finished, output, ref, merge, error >>

RaiseStep == \E r \in DOMAIN runs : \E node \in runs[r].tasks : RaiseTask(r, node)

\* the nodes of one superstep run concurrently: one that had not been invoked
\* when another raised may still be invoked; what it writes is dropped
RunSibling(r, node) ==
  /\ pc = "running"
  /\ runs[r].status = "error"
  /\ node \in runs[r].tasks \ ({runs[r].failed} \cup runs[r].late)
  /\ Callable(mode, self.graph, node)
  /\ runs' = [runs EXCEPT ![r].late = @ \cup {node}]
  /\ calls' = [calls EXCEPT ![r] =
                 Append(@, [node |-> node, object |-> NodeInput(Snapshot(runs[r]))])]
  /\ UNCHANGED << self, pc, mode, inputs, finished, output, ref, merge, error >>

SiblingStep == \E r \in DOMAIN runs : \E node \in runs[r].tasks : RunSibling(r, node)

\* results handed back in the order the runs ended
graph_results_as_completed(rs, done) == [i \in DOMAIN rs |-> rs[done[i]].channels]

\* graph.invoke / graph.batch: the final channel values, one per input, in input order
graph_results(rs, done) == [i \in DOMAIN rs |-> rs[i].channels]

\* the four methods return once every run has ended
invoke_result(results) == << to_output_type(results[1]) >>
batch_result(results) == [i \in DOMAIN results |-> to_output_type(results[i])]
async_invoke_result(results) == << to_output_type(results[1]) >>
async_batch_result(results) == [i \in DOMAIN results |-> to_output_type(results[i])]

MethodResult(m, results) ==
  CASE m = "invoke" -> invoke_result(results)
    [] m = "batch" -> batch_result(results)
    [] m = "async_invoke" -> async_invoke_result(results)
    [] m = "async_batch" -> async_batch_result(results)

\* what the mocks of run r recorded: the nodes invoked, in order, with the
\* state objects they were given as those objects are now
CallLog(r) ==
  [i \in DOMAIN calls[r] |->
     [node |-> calls[r][i].node, state |-> StateOf(calls[r][i].object, runs[r].channels)]]
\* the recorded calls as a multiset
CallBag(log) == [p \in Range(log) |-> Cardinality({i \in DOMAIN log : log[i] = p})]

Returns(newref) ==
  /\ pc = "running"
  /\ \A r \in DOMAIN runs : runs[r].status = "done"
  /\ pc' = "returned"
  /\ output' = MethodResult(mode, graph_results(runs, finished))
  /\ ref' = newref
  /\ UNCHANGED << self, mode, inputs, runs, calls, finished, merge, error >>

Return == Returns(ref)

\* an error that is dropped: the call returns what the channels hold
Raise_returns_partial ==
  /\ pc = "running"
  /\ \A r \in DOMAIN runs : runs[r].status \in {"done", "error"}
  /\ \E r \in DOMAIN runs : runs[r].status = "error"
  /\ pc' = "returned"
  /\ output' = MethodResult(mode, graph_results(runs, finished))
  /\ UNCHANGED << self, mode, inputs, runs, calls, finished, ref, merge, error >>

\* the error of a failed run leaves the method: the call returns nothing
Raise ==
  /\ pc = "running"
  /\ \A r \in DOMAIN runs : runs[r].status \in {"done", "error"}
  /\ \E r \in DOMAIN runs : runs[r].status = "error"
  /\ pc' = "raised"
  /\ \E r \in DOMAIN runs : runs[r].status = "error" /\ error' = runs[r].error
  /\ UNCHANGED << self, mode, inputs, runs, calls, finished, output, ref, merge >>

Next == invoke \/ batch \/ async_invoke \/ async_batch \/ Step \/ Fail \/ Return \/ Raise
Spec == Init /\ [][Next]_vars

\* ---------------------------------------------------------------- one state, every form
\* a session that calls the four methods one after the other on copies of one
\* initial state and keeps what the first call returned and invoked
Copies(s, k) == [i \in 1..k |-> s]
CallOnCopies(m, k) ==
  \E s \in States : (ref.mode = "none" \/ s = ref.state) /\ Call(m, Copies(s, k))
invoke_copy == CallOnCopies("invoke", 1)
batch_copies == \E k \in 1..MaxBatch : CallOnCopies("batch", k)
async_invoke_copy == CallOnCopies("async_invoke", 1)
async_batch_copies == \E k \in 1..MaxBatch : CallOnCopies("async_batch", k)
ReturnCompared ==
  Returns(IF ref.mode # "none" THEN ref
          ELSE [mode |-> mode, state |-> inputs[1],
                result |-> MethodResult(mode, graph_results(runs, finished))[1],
                calls |-> CallBag(CallLog(1))])
NextEquiv ==
  \/ invoke_copy \/ batch_copies \/ async_invoke_copy \/ async_batch_copies
  \/ Step \/ Fail \/ ReturnCompared \/ Raise
SpecEquiv == Init /\ [][NextEquiv]_vars

\* ---------------------------------------------------------------- descriptors that go wrong
ErrorImpls ==
  {ParameterizedTestGraph(name, SimpleTestGraphState(0, FALSE)) : name \in ErrorCaseNames}
NoGraph == [nodes |-> << >>, edges |-> {}, branches |-> {}, resolved |-> << >>]

\* LangchainGraph(impl) has been called and has set self.impl
InitErrors ==
  /\ self \in {[impl |-> impl, graph |-> NoGraph] : impl \in ErrorImpls}
  /\ pc = "new"
  /\ mode = "none"
  /\ inputs = << >>
  /\ runs = << >>
  /\ calls = << >>
  /\ finished = << >>
  /\ output = << >>
  /\ ref = NoRef
  /\ merge = NoMerge
  /\ error = NoError

\* LangchainGraph.__init__, line 115: build and compile; an error leaves no engine
construct ==
  /\ pc = "new"
  /\ LET compiled == compile(build_lang_graph(self.impl))
     IN IF compiled.raised
          THEN pc' = "construction_failed" /\ error' = compiled.error /\ UNCHANGED self
          ELSE pc' = "idle" /\ self' = [impl |-> self.impl, graph |-> compiled.graph]
               /\ UNCHANGED error
  /\ UNCHANGED << mode, inputs, runs, calls, finished, output, ref, merge >>

NextErrors ==
  \/ construct \/ invoke \/ batch \/ async_invoke \/ async_batch
  \/ Step \/ RaiseStep \/ SiblingStep \/ Return \/ Raise
SpecErrors == InitErrors /\ [][NextErrors]_vars

\* ---------------------------------------------------------------- a change applied directly
\* what test_changeset.py does: one call of a change's apply or of
\* apply_changeset, its result or its error, and what the mocks recorded
Values == 0..MaxValue
Reducers == {lambda_increment} \cup {Mock(v) : v \in Values}
ChangeSets ==
  {NoChange} \cup {OverwriteChange(v) : v \in Values} \cup {ReducerChange(r) : r \in Reducers}
DefaultChanges == {"OverwriteChange", "NoChange", "mock_change_factory"}

InitChange ==
  /\ self = LangchainGraph(ParameterizedTestGraph("simple", SimpleTestGraphState(0, FALSE)))
  /\ pc = "idle"
  /\ mode = "none"
  /\ inputs = << >>
  /\ runs = << >>
  /\ calls = << >>
  /\ finished = << >>
  /\ output = << >>
  /\ ref = NoRef
  /\ merge = NoMerge
  /\ error = NoError

\* change.apply(current)
change_apply(change, current) ==
  /\ merge' = [op |-> "apply", current |-> current, new |-> change,
               default_change |-> "OverwriteChange",
               raise_exception_on_unrecognized |-> FALSE,
               raised |-> FALSE, error |-> NoError,
               value |-> apply(change, current),
               calls |-> reducer_calls(change, current)]
  /\ UNCHANGED << self, pc, mode, inputs, runs, calls, finished, output, ref, error >>

NoChange_apply == \E current \in Values : change_apply(NoChange, current)
OverwriteChange_apply ==
  \E current \in Values, new \in Values : change_apply(OverwriteChange(new), current)
ReducerChange_apply ==
  \E current \in Values, reducer \in Reducers : change_apply(ReducerChange(reducer), current)

\* apply_changeset(current, new, default_change=..., raise_exception_on_unrecognized=...)
call_apply_changeset ==
  \E current \in Values, new \in ChangeSets \cup {Value(v) : v \in Values},
     default_change \in DefaultChanges, raise_exception_on_unrecognized \in BOOLEAN :
    LET result == apply_changeset(current, new, default_change,
                                  raise_exception_on_unrecognized)
    IN /\ merge' = [op |-> "apply_changeset", current |-> current, new |-> new,
                    default_change |-> default_change,
                    raise_exception_on_unrecognized |-> raise_exception_on_unrecognized,
                    raised |-> result.raised, error |-> result.error,
                    value |-> result.value,
                    calls |-> apply_changeset_calls(current, new, default_change,
                                                    raise_exception_on_unrecognized)]
       /\ UNCHANGED << self, pc, mode, inputs, runs, calls, finished, output, ref, error >>

NextChange ==
  NoChange_apply \/ OverwriteChange_apply \/ ReducerChange_apply \/ call_apply_changeset
SpecChange == InitChange /\ [][NextChange]_vars

\* ---------------------------------------------------------------- cycles
LoopImpls ==
  {ParameterizedTestGraph(name, SimpleTestGraphState(0, FALSE)) : name \in LoopCaseNames}
InitLoop ==
  /\ self \in {LangchainGraph(impl) : impl \in LoopImpls}
  /\ pc = "idle"
  /\ mode = "none"
  /\ inputs = << >>
  /\ runs = << >>
  /\ calls = << >>
  /\ finished = << >>
  /\ output = << >>
  /\ ref = NoRef
  /\ merge = NoMerge
  /\ error = NoError
NextLoop == invoke \/ async_invoke \/ Step \/ Raise
SpecLoop == InitLoop /\ [][NextLoop]_vars

\* ---------------------------------------------------------------- fan-out and fan-in
FanImpls ==
  {ParameterizedTestGraph(name, SimpleTestGraphState(0, FALSE)) : name \in FanCaseNames}
InitFan ==
  /\ self \in {LangchainGraph(impl) : impl \in FanImpls}
  /\ pc = "idle"
  /\ mode = "none"
  /\ inputs = << >>
  /\ runs = << >>
  /\ calls = << >>
  /\ finished = << >>
  /\ output = << >>
  /\ ref = NoRef
  /\ merge = NoMerge
  /\ error = NoError
NextFan == invoke \/ batch \/ async_invoke \/ async_batch \/ Step \/ Return
SpecFan == InitFan /\ [][NextFan]_vars

\* ---------------------------------------------------------------- an edge to END beside an edge to a last step
\* the shape of ResumeBuilderPipeline.graph_edges; graph.invoke and its siblings
\* run every scheduled task of a superstep and return when none is scheduled,
\* so a task that can run does run and a call whose runs are done does return
ResumeImpls ==
  {ParameterizedTestGraph("resume_builder", SimpleTestGraphState(0, FALSE))}
InitResume ==
  /\ self \in {LangchainGraph(impl) : impl \in ResumeImpls}
  /\ pc = "idle"
  /\ mode = "none"
  /\ inputs = << >>
  /\ runs = << >>
  /\ calls = << >>
  /\ finished = << >>
  /\ output = << >>
  /\ ref = NoRef
  /\ merge = NoMerge
  /\ error = NoError
NextResume == invoke \/ batch \/ async_invoke \/ async_batch \/ Step \/ Return
SpecResume == InitResume /\ [][NextResume]_vars /\ WF_vars(Step) /\ WF_vars(Return)

\* ---------------------------------------------------------------- siblings, one field
ConflictImpls ==
  {ParameterizedTestGraph(name, SimpleTestGraphState(0, FALSE)) : name \in ConflictCaseNames}
InitConflict ==
  /\ self \in {LangchainGraph(impl) : impl \in ConflictImpls}
  /\ pc = "idle"
  /\ mode = "none"
  /\ inputs = << >>
  /\ runs = << >>
  /\ calls = << >>
  /\ finished = << >>
  /\ output = << >>
  /\ ref = NoRef
  /\ merge = NoMerge
  /\ error = NoError
NextConflict == invoke \/ batch \/ async_invoke \/ async_batch \/ Step \/ Return
SpecConflict == InitConflict /\ [][NextConflict]_vars

\* ---------------------------------------------------------------- direct calls
\* what a compiled graph may hand back for one input: a mapping over any of the
\* declared fields and a name that is no field
UnknownField == "unknown"
KwargsOver(names) ==
  {[f \in names |-> IF f = "visits" THEN v ELSE IF f = "should_end" THEN e ELSE 0] :
     v \in (IF "visits" \in names THEN Values ELSE {0}),
     e \in (IF "should_end" \in names THEN BOOLEAN ELSE {FALSE})}
GraphResults == UNION {KwargsOver(names) : names \in SUBSET (Fields \cup {UnknownField})}
RECURSIVE ResultsUpTo(_)
ResultsUpTo(n) ==
  IF n = 0 THEN {}
  ELSE ResultsUpTo(n - 1) \cup [1..n -> GraphResults]

\* method m receives results from self.graph and converts each with
\* _to_output_type; one call per behaviour
convert(m, results) ==
  LET converted == Converted(results)
  IN /\ merge' = [op |-> "to_output_type", method |-> m, results |-> results,
                  raised |-> converted.raised, error |-> converted.error,
                  value |-> converted.value]
     /\ UNCHANGED << self, pc, mode, inputs, runs, calls, finished, output, ref, error >>

invoke_converts ==
  merge = NoMerge /\ \E result \in GraphResults : convert("invoke", << result >>)
batch_converts ==
  merge = NoMerge /\ \E results \in ResultsUpTo(MaxBatch) : convert("batch", results)
async_invoke_converts ==
  merge = NoMerge /\ \E result \in GraphResults : convert("async_invoke", << result >>)
async_batch_converts ==
  merge = NoMerge /\ \E results \in ResultsUpTo(MaxBatch) : convert("async_batch", results)

\* the steps a descriptor may be asked about: its own and those of other enumerations
AnySteps == ResumeBuilderSteps \cup SimpleTestGraphStep \cup CommonGraphSteps \cup {UndeclaredStep}
call_implementation_for ==
  /\ merge = NoMerge
  /\ \E descriptor \in {"ResumeBuilderPipeline", "ParameterizedTestGraph"}, step \in AnySteps :
       LET result == IF descriptor = "ResumeBuilderPipeline"
                       THEN ResumeBuilderPipeline_implementation_for(step)
                     ELSE ParameterizedTestGraph_implementation_for(self.impl, step)
       IN /\ merge' = [op |-> "implementation_for", descriptor |-> descriptor, step |-> step,
                       raised |-> result.raised, error |-> result.error,
                       value |-> result.value]
          /\ UNCHANGED << self, pc, mode, inputs, runs, calls, finished, output, ref, error >>

\* one build resolves x twice: when it registers it and when a decision returns it
resolve_names ==
  /\ merge = NoMerge
  /\ \E given \in OverrideTables, x \in AnySteps :
       merge' = [op |-> "resolve", overrides |-> given, step |-> x,
                 registered |-> registered_name(given, x),
                 returned |-> returned_name(given, x)]
  /\ UNCHANGED << self, pc, mode, inputs, runs, calls, finished, output, ref, error >>

\* graph_edges is typed as a sequence of edge-like objects and nothing checks
\* its entries: a pair of steps, or an edge of the other backend's class, may
\* stand among the edges
Backends == {"agentic", "legacy"}
ForeignEntries(backend) ==
  {[type |-> "tuple", start |-> "Three", end |-> "One"],
   IF backend = "agentic" THEN PipelineEdge("Three", "One") ELSE GraphEdge("Three", "One")}
\* the edges of a test case in the classes of the backend that is to build them
EdgesFor(backend, edges) ==
  [i \in DOMAIN edges |->
     IF backend = "agentic" THEN edges[i]
     ELSE IF edges[i].type = "GraphEdge" THEN PipelineEdge(edges[i].start, edges[i].end)
     ELSE DynamicPipelineEdge(edges[i].start, edges[i].end)]
\* entry put behind the first k of the edges
InsertAt(edges, k, entry) ==
  SubSeq(edges, 1, k) \o << entry >> \o SubSeq(edges, k + 1, Len(edges))

\* _build_lang_graph(impl).compile() of either backend on a descriptor with one
\* foreign entry among its edges
build_with_foreign_entry ==
  /\ merge = NoMerge
  /\ \E backend \in Backends, name \in {"simple", "dynamic"}, k \in 0..Len(simple_graph_test_case) :
       \E entry \in ForeignEntries(backend) :
         LET impl == ParameterizedTestGraph(name, SimpleTestGraphState(0, FALSE))
             declared == EdgesFor(backend, impl.graph_edges)
             descriptor == [impl EXCEPT !.graph_edges = InsertAt(declared, k, entry)]
             compiled == compile(IF backend = "agentic" THEN build_lang_graph(descriptor)
                                 ELSE LangGraphPipeline_build_lang_graph(descriptor))
         IN /\ k <= Len(declared)
            /\ merge' = [op |-> "build", backend |-> backend, declared |-> declared,
                         entry |-> entry, position |-> k, raised |-> compiled.raised,
                         error |-> compiled.error, graph |-> compiled.graph]
  /\ UNCHANGED << self, pc, mode, inputs, runs, calls, finished, output, ref, error >>

NextCalls ==
  \/ invoke_converts \/ batch_converts \/ async_invoke_converts \/ async_batch_converts
  \/ call_implementation_for \/ resolve_names \/ build_with_foreign_entry
SpecCalls == InitChange /\ [][NextCalls]_vars

\* ---------------------------------------------------------------- properties
\* dataclasses.replace(state, visits=state.visits + k)
Visited(state, k) == [state EXCEPT !.visits = @ + k]
Called(node, state) == [node |-> node, state |-> state]
Returned(name) == pc = "returned" /\ self.impl.name = name
Invoked(r, node) == {i \in DOMAIN calls[r] : calls[r][i].node = node}

\* C1: on the linear graph START->One->Two->Three->END a call started at visits=n
\* returns visits=n+3 with every other field unchanged, having invoked One with
\* the initial state, Two with visits=n+1 and Three with visits=n+2, once each.
SequentialGraph ==
  \A r \in DOMAIN inputs :
    Returned("simple") =>
      /\ output[r] = Visited(inputs[r], 3)
      /\ CallLog(r) = << Called("One", inputs[r]), Called("Two", Visited(inputs[r], 1)),
                         Called("Three", Visited(inputs[r], 2)) >>
SequentialGraphReturned ==
  Returned("simple") /\ mode = "invoke" /\ output[1].visits = inputs[1].visits + 3

\* C2: on the graph whose START edge is dynamic, a state with should_end set
\* invokes no node and is returned as it is; a state without it invokes One, Two
\* and Three once each in that order and returns visits=n+3.
DynamicShortCircuit ==
  \A r \in DOMAIN inputs :
    Returned("dynamic") =>
      IF inputs[r].should_end
        THEN CallLog(r) = << >> /\ output[r] = inputs[r]
        ELSE /\ output[r] = Visited(inputs[r], 3)
             /\ CallLog(r) = << Called("One", inputs[r]), Called("Two", Visited(inputs[r], 1)),
                                Called("Three", Visited(inputs[r], 2)) >>
DynamicBothWays ==
  /\ Returned("dynamic") /\ Len(inputs) = 2
  /\ inputs[1].should_end /\ ~inputs[2].should_end
  /\ output[1] = inputs[1] /\ Len(calls[2]) = 3

\* C3: on the cyclic graph a run started at the visits=n its decision was built
\* for never invokes more than four actions, can always go on until it ends, and
\* returns visits=n+4 after One(n), Two(n+1), Three(n+2), One(n+3).
LoopTerminates ==
  \A r \in DOMAIN inputs :
    (self.impl.name = "looped" /\ inputs[r].visits = self.impl.start.visits) =>
      /\ Len(calls[r]) <= 4
      /\ runs[r].status = "running" => runs[r].tasks # {}
      /\ pc = "returned" =>
           /\ output[r] = Visited(inputs[r], 4)
           /\ CallLog(r) = << Called("One", inputs[r]), Called("Two", Visited(inputs[r], 1)),
                              Called("Three", Visited(inputs[r], 2)),
                              Called("One", Visited(inputs[r], 3)) >>
LoopReturned ==
  /\ Returned("looped") /\ mode = "invoke"
  /\ inputs[1].visits = self.impl.start.visits
  /\ Cardinality(Invoked(1, "One")) = 2

\* C4: on the diamond START->One, START->Two, One->Three, Two->Three, Three->END
\* Three is invoked once per run, as the third action after One and Two in
\* either order, with both their updates in the state it receives.
DiamondJoin ==
  \A r \in DOMAIN inputs :
    self.impl.name = "diamond" =>
      /\ Cardinality(Invoked(r, "Three")) <= 1
      /\ runs[r].status = "done" => Cardinality(Invoked(r, "Three")) = 1
      /\ \A i \in Invoked(r, "Three") :
           /\ i = 3
           /\ {calls[r][1].node, calls[r][2].node} = {"One", "Two"}
           /\ CallLog(r)[i].state = Visited(inputs[r], 2)
DiamondTwoFirst ==
  /\ Returned("diamond") /\ Len(calls) >= 1 /\ Len(calls[1]) = 3
  /\ calls[1][1].node = "Two" /\ calls[1][2].node = "One" /\ calls[1][3].node = "Three"

\* C5: when START fans out to One and Two and only Two goes on (Two->Three,
\* Three->END), the run ends, Three is invoked once with visits=n+2, both
\* siblings' increments included, and the call returns visits=n+3.
FanOutDeadEnd ==
  \A r \in DOMAIN inputs :
    self.impl.name = "parallel" =>
      /\ Len(calls[r]) <= 3
      /\ runs[r].status = "running" => runs[r].tasks # {}
      /\ \A i \in Invoked(r, "Three") :
           i = 3 /\ CallLog(r)[i].state = Visited(inputs[r], 2)
      /\ pc = "returned" =>
           /\ Cardinality(Invoked(r, "Three")) = 1
           /\ CallBag(CallLog(r)) = CallBag(<< Called("One", inputs[r]), Called("Two", inputs[r]),
                                               Called("Three", Visited(inputs[r], 2)) >>)
           /\ output[r] = Visited(inputs[r], 3)
FanOutDeadEndReturned ==
  /\ Returned("parallel") /\ mode = "invoke" /\ Len(calls[1]) = 3
  /\ calls[1][1].node = "Two" /\ calls[1][2].node = "One" /\ output[1].visits = inputs[1].visits + 3

\* C6: batch and async_batch return as many states as they were given, and
\* element i is the final state of the run started from input i, whatever the
\* order the runs ended in.
BatchKeepsInputOrder ==
  (pc = "returned" /\ mode \in {"batch", "async_batch"}) =>
    /\ Len(output) = Len(inputs)
    /\ \A i \in DOMAIN inputs :
         /\ output[i] = to_output_type(runs[i].channels)
         /\ output[i] = Visited(inputs[i], Len(calls[i]))
BatchEndedOutOfOrder ==
  /\ pc = "returned" /\ mode = "batch" /\ Len(inputs) = 2
  /\ finished = << 2, 1 >>
  /\ inputs[1] # inputs[2] /\ output[1] # output[2]

\* C7: whichever of invoke, async_invoke, batch and async_batch is called on
\* copies of one initial state, once one of them has returned a result each of
\* them returns, every element returned equals that first result, and every run
\* invoked the node actions with the same multiset of argument states.
SyncAsyncEquivalent ==
  ref.mode # "none" =>
    /\ pc # "raised"
    /\ pc = "returned" =>
         /\ Len(output) = Len(inputs)
         /\ \A r \in DOMAIN inputs :
              /\ inputs[r] = ref.state
              /\ output[r] = ref.result
              /\ CallBag(CallLog(r)) = ref.calls

\* C8: in a batch every node action of a run receives that run's own initial
\* state advanced by that run's own earlier invocations, every result is the
\* run's own initial state plus one visit per action the run invoked, and runs
\* with equal initial states invoke the same calls and return equal results.
RunsAreIndependent ==
  \A r \in DOMAIN inputs :
    /\ \A i \in DOMAIN calls[r] :
         /\ CallLog(r)[i].state.should_end = inputs[r].should_end
         /\ CallLog(r)[i].state.visits \in inputs[r].visits .. (inputs[r].visits + i - 1)
    /\ pc = "returned" =>
         /\ output[r] = Visited(inputs[r], Len(calls[r]))
         /\ \A q \in DOMAIN inputs :
              inputs[q] = inputs[r] =>
                output[q] = output[r] /\ CallBag(CallLog(q)) = CallBag(CallLog(r))
BatchInterleaved ==
  /\ pc = "running" /\ mode \in {"batch", "async_batch"} /\ Len(inputs) = 2
  /\ inputs[1].should_end # inputs[2].should_end
  /\ Len(calls[1]) = 1 /\ Len(calls[2]) = 2
  /\ runs[1].status = "running" /\ runs[2].status = "running"

\* C9 as stated: once a run has reached END no node action is invoked for it.
NothingRunsAfterEnd ==
  \A r \in DOMAIN runs : ~runs[r].invoked_after_end

\* C9 amended: a run ends when a superstep leaves no node scheduled, reaching
\* END along one edge ends that branch only; an ended run invokes nothing more,
\* every node a completed node had an edge to has been invoked by the time the
\* call returns, and the value returned is the accumulated state of that moment.
RunEndsWhenNothingIsScheduled ==
  [][\A r \in DOMAIN runs :
       /\ (runs[r].status = "done") = (runs[r].tasks = {})
       /\ (pc = "running" /\ runs[r].status = "done" /\ pc' # "idle") =>
            calls'[r] = calls[r] /\ runs'[r] = runs[r]
       /\ (pc = "running" /\ pc' = "returned") =>
            /\ output'[r] = to_output_type(runs[r].channels)
            /\ \A e \in self.graph.edges :
                 (Invoked(r, e[1]) # {} /\ e[2] # LG_END) => Invoked(r, e[2]) # {}]_vars
RanOnAfterEnd ==
  /\ Returned("resume_builder") /\ Len(inputs) >= 1
  /\ runs[1].invoked_after_end
  /\ output[1] = Visited(inputs[1], 2)

CallsOf(callee) == SelectSeq(merge.calls, LAMBDA c : c.callee = callee)

\* C11: NoChange().apply(x) returns x, for every value x.
NoChangeKeepsCurrent ==
  (merge.op = "apply" /\ merge.new.kind = "NoChange") =>
    ~merge.raised /\ merge.value = merge.current
NoChangeApplied ==
  merge.op = "apply" /\ merge.new.kind = "NoChange" /\ merge.current = 1 /\ merge.value = 1

\* C12: OverwriteChange(y).apply(x) returns y, whatever x is.
OverwriteReturnsNew ==
  (merge.op = "apply" /\ merge.new.kind = "OverwriteChange") =>
    ~merge.raised /\ merge.value = merge.new.new
OverwriteApplied ==
  /\ merge.op = "apply" /\ merge.new.kind = "OverwriteChange"
  /\ merge.current = 0 /\ merge.new.new = 1 /\ merge.value = 1

\* C13: ReducerChange(r).apply(x) returns r(x), and r is called exactly once,
\* with x as its only argument.
ReducerCalledOnce ==
  (merge.op = "apply" /\ merge.new.kind = "ReducerChange") =>
    /\ ~merge.raised
    /\ merge.value = CallReducer(merge.new.reducer, merge.current)
    /\ merge.calls = << [callee |-> "reducer", of |-> merge.new, args |-> << merge.current >>] >>
ReducerApplied ==
  /\ merge.op = "apply" /\ merge.new = ReducerChange(Mock(1))
  /\ merge.current = 0 /\ merge.value = 1 /\ Len(merge.calls) = 1

\* C14: for a ChangeSet c of any of the three classes, apply_changeset(x, c)
\* returns c.apply(x), calls c.apply exactly once, with x, and calls no
\* default_change, whatever the other two arguments are.
RecognizedChangeIsApplied ==
  (merge.op = "apply_changeset" /\ IsChangeSet(merge.new)) =>
    /\ ~merge.raised
    /\ merge.value = apply(merge.new, merge.current)
    /\ CallsOf("apply") = << [callee |-> "apply", of |-> merge.new, args |-> << merge.current >>] >>
    /\ CallsOf("default_change") = << >>
RecognizedChangeMerged ==
  /\ merge.op = "apply_changeset" /\ merge.new = OverwriteChange(1)
  /\ merge.current = 0 /\ merge.value = 1 /\ merge.raise_exception_on_unrecognized

\* C15: for a value v that is no ChangeSet, with the strict flag off,
\* apply_changeset(x, v) returns v under the default default_change; under a
\* supplied default_change it calls default_change exactly once, with v, calls
\* the apply of the change it returned exactly once, with x, and returns
\* default_change(v).apply(x).
RawValueGoesThroughDefault ==
  (/\ merge.op = "apply_changeset" /\ ~IsChangeSet(merge.new)
   /\ ~merge.raise_exception_on_unrecognized) =>
    LET v == merge.new.value
        change == CallDefaultChange(merge.default_change, v)
    IN /\ ~merge.raised
       /\ merge.default_change = "OverwriteChange" => merge.value = v
       /\ merge.value = apply(change, merge.current)
       /\ CallsOf("default_change") =
            << [callee |-> "default_change", of |-> merge.default_change, args |-> << v >>] >>
       /\ CallsOf("apply") =
            << [callee |-> "apply", of |-> change, args |-> << merge.current >>] >>
RawValueKeptByNoChange ==
  /\ merge.op = "apply_changeset" /\ merge.new = Value(1)
  /\ ~merge.raise_exception_on_unrecognized /\ merge.default_change = "NoChange"
  /\ merge.current = 0 /\ merge.value = 0

\* C16: for a value v that is no ChangeSet, apply_changeset(x, v) with the
\* strict flag set raises, returns nothing, and calls neither default_change
\* (supplied or not) nor any change's apply nor a reducer.
StrictModeRaisesWithoutCalls ==
  (/\ merge.op = "apply_changeset" /\ ~IsChangeSet(merge.new)
   /\ merge.raise_exception_on_unrecognized) =>
    merge.raised /\ merge.calls = << >>
StrictModeRaisedWithFactory ==
  /\ merge.op = "apply_changeset" /\ merge.new = Value(1)
  /\ merge.raise_exception_on_unrecognized /\ merge.default_change = "mock_change_factory"
  /\ merge.raised

\* C17: the error of the strict path reaches the caller of apply_changeset as
\* the ValueError of changeset.py:71-72 (the error the specification calls
\* UnrecognizedChangeError), and no other call of apply_changeset gives its
\* caller an error.
UnrecognizedChangeErrorSurfaces ==
  merge.op = "apply_changeset" =>
    IF ~IsChangeSet(merge.new) /\ merge.raise_exception_on_unrecognized
      THEN merge.raised /\ merge.error = ValueError
      ELSE ~merge.raised /\ merge.error = NoError
UnrecognizedChangeErrorSeen ==
  /\ merge.op = "apply_changeset" /\ merge.new = Value(0)
  /\ merge.default_change = "OverwriteChange" /\ merge.error.type = "ValueError"

\* the positions in the call log of run r at which node was invoked
CallsTo(r, node) == {i \in DOMAIN calls[r] : calls[r][i].node = node}
\* a run that ended because one of its node actions raised
ActionRaised(r) == runs[r].status = "error" /\ runs[r].error = CollaboratorError

\* C18 as stated: when a node action raises, the caller of the method gets
\* that error and no final state, the failing action is invoked once, and no
\* node action of the run is invoked after it.
NoActionAfterActionError ==
  \A r \in DOMAIN runs :
    ActionRaised(r) =>
      /\ pc # "returned"
      /\ pc = "raised" => output = << >> /\ error = CollaboratorError
      /\ Cardinality(CallsTo(r, runs[r].failed)) = 1
      /\ \A i \in DOMAIN calls[r] : \A k \in CallsTo(r, runs[r].failed) : i <= k

\* C18: when a node action raises, the caller of the method gets that error
\* and no final state, the failing action is invoked once, the channels keep
\* the values of the superstep's start, and whatever is invoked afterwards is
\* a node scheduled in the same superstep as the failing one, invoked once with
\* the state the failing one was given; no node of a later superstep runs.
ActionErrorEndsRunAtItsSuperstep ==
  \A r \in DOMAIN runs :
    ActionRaised(r) =>
      /\ pc # "returned"
      /\ pc = "raised" => output = << >> /\ error = CollaboratorError
      /\ Cardinality(CallsTo(r, runs[r].failed)) = 1
      /\ \A k \in CallsTo(r, runs[r].failed) :
           /\ calls[r][k].object.state = to_output_type(runs[r].channels)
           /\ \A i \in DOMAIN calls[r] :
                i > k => /\ calls[r][i].node \in runs[r].tasks \ {runs[r].failed}
                         /\ calls[r][i].object = calls[r][k].object
                         /\ Cardinality(CallsTo(r, calls[r][i].node)) = 1
SiblingInvokedAfterError ==
  /\ pc = "raised" /\ error = CollaboratorError /\ self.impl.name = "parallel_failing"
  /\ \E r \in DOMAIN runs : ActionRaised(r) /\ CallLog(r)[Len(calls[r])].node = "Two"
                                /\ Len(calls[r]) = 2

\* an edge of the descriptor names a step that is neither declared nor a sentinel
RefersToUndeclared(impl) ==
  \E e \in Range(impl.graph_edges) :
    \/ e.start \notin impl.steps_type \cup CommonGraphSteps
    \/ e.type = "GraphEdge" /\ e.end \notin impl.steps_type \cup CommonGraphSteps

\* C19: a descriptor with an edge that starts or ends at a step outside
\* steps_type and the sentinels never becomes an engine: construction raises,
\* no compiled graph is kept, no method is ever called and no node action invoked.
UndeclaredStepRefusedAtConstruction ==
  RefersToUndeclared(self.impl) =>
    /\ pc \in {"new", "construction_failed"}
    /\ pc = "construction_failed" => error = UnknownNodeError
    /\ self.graph = NoGraph
    /\ runs = << >> /\ calls = << >>
ConstructionRefused ==
  /\ pc = "construction_failed" /\ self.impl.name = "undeclared_end"
  /\ error.type = "ValueError"

\* the decision of run r's dynamic edge returned a step that has no node
DecidedUnregistered(r) ==
  /\ self.impl.name \in {"dynamic_undeclared", "dynamic_start"}
  /\ inputs[r].should_end
  /\ CallsTo(r, "One") # {}

\* C20: once a decision has returned a step with no registered node, the run
\* fails: it never ends with a final state, the method does not return, and no
\* node action is invoked after the node the decision belongs to.
UnregisteredDecisionFailsRun ==
  \A r \in DOMAIN runs :
    DecidedUnregistered(r) =>
      /\ runs[r].status = "error"
      /\ pc # "returned"
      /\ Len(calls[r]) = 1
\* C21: every method returns state_type instances built from the mappings the
\* graph handed back, and a mapping whose names are not exactly the declared
\* fields, one too many or one too few, makes the call fail
AnyMismatchFails ==
  merge.op = "to_output_type" =>
    ((\E i \in DOMAIN merge.results : DOMAIN merge.results[i] # Fields) => merge.raised)
\* C21 as the code has it: the call fails exactly when a mapping has a name
\* that is no field or lacks a field declared without default; otherwise every
\* returned instance has exactly the declared fields, with the mapping's
\* values and the declared default for a field the mapping left out
MismatchFailsUnlessDefaulted ==
  merge.op = "to_output_type" =>
    /\ merge.raised <=>
         \E i \in DOMAIN merge.results :
           \/ DOMAIN merge.results[i] \ Fields # {}
           \/ "visits" \notin DOMAIN merge.results[i]
    /\ merge.raised => merge.error.type = "TypeError" /\ merge.value = << >>
    /\ ~merge.raised =>
         /\ DOMAIN merge.value = DOMAIN merge.results
         /\ \A i \in DOMAIN merge.results :
              merge.value[i] =
                SimpleTestGraphState(merge.results[i].visits,
                                     IF "should_end" \in DOMAIN merge.results[i]
                                       THEN merge.results[i].should_end
                                     ELSE FALSE)
BatchFailedOnOneMapping ==
  /\ merge.op = "to_output_type"
  /\ merge.method = "batch"
  /\ Len(merge.results) = 2
  /\ DOMAIN merge.results[1] = Fields
  /\ UnknownField \in DOMAIN merge.results[2]
  /\ merge.raised

\* C22: implementation_for returns an action for every step of the declared
\* enumeration and fails, returning nothing, for any other step; the pipeline
\* fails with the error that marks a case as unreachable
UndeclaredStepHasNoAction ==
  merge.op = "implementation_for" =>
    LET declared == IF merge.descriptor = "ResumeBuilderPipeline" THEN ResumeBuilderSteps
                    ELSE self.impl.steps_type
    IN /\ merge.step \in declared =>
            /\ ~merge.raised
            /\ merge.value \in {"lookup", "generate", "iterate_state"}
       /\ merge.step \notin declared =>
            /\ merge.raised
            /\ merge.value = "none"
            /\ merge.descriptor = "ResumeBuilderPipeline" =>
                 merge.error.type = "AssertionError"
UndeclaredStepAsked ==
  /\ merge.op = "implementation_for"
  /\ merge.descriptor = "ResumeBuilderPipeline"
  /\ merge.step \in SimpleTestGraphStep
  /\ merge.raised

\* the decisions of run r taken for the dynamic edge that starts at node
DecisionsOf(r, node) ==
  {k \in DOMAIN runs[r].decided : runs[r].decided[k].node = node}
\* the j-th smallest member of a set of indices
Nth(set, j) == CHOOSE i \in set : Cardinality({i2 \in set : i2 <= i}) = j
\* which visit of its start node the k-th decision of run r belongs to
VisitOf(r, k) ==
  Cardinality({k2 \in DecisionsOf(r, runs[r].decided[k].node) : k2 <= k})
\* the position in the call log of the visit the k-th decision followed; 0 for START
CallBefore(r, k) ==
  IF runs[r].decided[k].node = LG_START THEN 0
  ELSE Nth(Invoked(r, runs[r].decided[k].node), VisitOf(r, k))

\* C23: the decision of a dynamic edge is called with the state that has its
\* start node's update merged in, never with the state the node's action
\* received; in the loop started at visits=n the decision after One's second
\* visit sees visits=n+4 and returns END
DecisionSeesMergedState ==
  \A r \in DOMAIN runs :
    /\ \A k \in DOMAIN runs[r].decided :
         LET d == runs[r].decided[k]
         IN d.node # LG_START =>
              /\ VisitOf(r, k) <= Cardinality(Invoked(r, d.node))
              /\ d.state = Visited(calls[r][CallBefore(r, k)].object.state, 1)
              /\ d.state # calls[r][CallBefore(r, k)].object.state
    /\ (/\ self.impl.name = "looped"
        /\ inputs[r].visits = self.impl.start.visits
        /\ Len(runs[r].decided) >= 2) =>
          /\ runs[r].decided[2].state = Visited(inputs[r], 4)
          /\ runs[r].decided[2].returned = LG_END
LoopDecidedToEnd ==
  \E r \in DOMAIN runs :
    /\ self.impl.name = "looped"
    /\ Len(runs[r].decided) = 2
    /\ runs[r].decided[2].node = "One"
    /\ runs[r].decided[2].returned = LG_END

CycleIsNeverAborted ==
  \A r \in DOMAIN runs :
    self.impl.name = "forever" =>
      /\ ~runs[r].reached_end
      /\ runs[r].status = "running"
      /\ pc # "raised"

\* the calls of run r whose updates are merged: all but those of the superstep under way
Committed(r) == Len(calls[r]) - Len(runs[r].writes)
\* the update the action of a logged call returned
UpdateOf(call) == CallAction(self.graph.nodes[call.node], call.object.state)
\* one field taken through the updates of a superstep, one apply_changeset each
RECURSIVE MergeField(_, _, _)
MergeField(f, prior, updates) ==
  IF updates = << >> THEN prior
  ELSE MergeField(f, apply_changeset(prior, Head(updates)[f], "OverwriteChange", FALSE).value,
                  Tail(updates))

\* C26: merging the updates of a superstep changes each field of the state only
\* as the update's ChangeSet for that field dictates: the new value is
\* apply_changeset(prior value, the update's value for the field), a field
\* whose ChangeSet is NoChange keeps its value, and nothing else changes the state
MergeFollowsChangeSets ==
  [][(pc = "running" /\ pc' = "running") =>
       \A r \in DOMAIN runs :
         IF runs[r].tasks = {LG_START}
           THEN \A f \in Fields :
                  runs'[r].channels[f] =
                    IF runs'[r].tasks = {LG_START} THEN runs[r].channels[f] ELSE inputs[r][f]
         ELSE IF runs'[r] # runs[r] /\ runs'[r].writes = << >>
           THEN LET n == Len(calls'[r]) - Committed(r)
                    updates == [i \in 1..n |-> UpdateOf(calls'[r][Committed(r) + i])]
                IN \A f \in Fields :
                     /\ runs'[r].channels[f] = MergeField(f, runs[r].channels[f], updates)
                     /\ (\A i \in 1..n : updates[i][f] = NoChange) =>
                          runs'[r].channels[f] = runs[r].channels[f]
         ELSE runs'[r].channels = runs[r].channels]_vars
FieldsMergedEachItsOwnWay ==
  /\ self.impl.name = "disjoint"
  /\ Len(runs) >= 1
  /\ runs[1].status = "done"
  /\ ~inputs[1].should_end
  /\ runs[1].channels.should_end
  /\ runs[1].channels.visits = inputs[1].visits + 2

\* the nodes the static edges of a node lead to, and the nodes that fan out
StaticTargets(node) == {e[2] : e \in {x \in self.graph.edges : x[1] = node}} \ {LG_END}
FanOutNodes == {node \in {e[1] : e \in self.graph.edges} : Cardinality(StaticTargets(node)) > 1}
\* the state the first call of a node received in run r
FirstState(r, node) == calls[r][Nth(Invoked(r, node), 1)].object.state
\* the state a fan-out at node starts from: the caller's for START, else the
\* state the node received with the node's own update merged
PreFanOut(r, node) ==
  IF node = LG_START THEN inputs[r] ELSE to_output_type(Reduce(FirstState(r, node),
                                           UpdateOf(calls[r][Nth(Invoked(r, node), 1)])))

\* C27: at a fan-out the action of every target receives the same state, the
\* one from before the fan-out; no sibling sees what another sibling wrote,
\* whichever of them ran first
SiblingsReceiveSameState ==
  \A r \in DOMAIN runs : \A node \in FanOutNodes : \A target \in StaticTargets(node) :
    Invoked(r, target) # {} => FirstState(r, target) = PreFanOut(r, node)
LaterSiblingSawNoUpdate ==
  \E r \in DOMAIN runs :
    /\ self.impl.name = "uneven"
    /\ Len(calls[r]) >= 3
    /\ calls[r][2].node = "Two"
    /\ calls[r][3].node = "Three"
    /\ calls[r][3].object.state = Visited(inputs[r], 1)

\* the nodes with a static edge to node
StaticSources(node) == {e[1] : e \in {x \in self.graph.edges : x[2] = node}}

\* C28: a node with several incoming edges is invoked once per fan-in and not
\* before every branch leading to it has completed, whether the branches have
\* the same length (START->One->Three, START->Two->Three) or not
\* (One->Three, One->Two->Three)
JoinWaitsForEveryBranch ==
  \A r \in DOMAIN runs :
    self.impl.name \in {"diamond", "uneven"} =>
      /\ Cardinality(Invoked(r, "Three")) <= 1
      /\ \A i \in Invoked(r, "Three") : \A source \in StaticSources("Three") :
           \E j \in Invoked(r, source) :
             /\ j < i
             /\ calls[r][i].object.state.visits > calls[r][j].object.state.visits

\* C29: along every edge X -> Y, static or dynamic, an invocation of Y that
\* the edge triggered starts after the triggering invocation of X has completed
\* and the update of X has been merged; a node triggered from START starts
\* from the caller's initial state
NodeStartsAfterSourceMerged ==
  \A r \in DOMAIN runs : \A i \in DOMAIN calls[r] :
    LET node == calls[r][i].node
        state == calls[r][i].object.state
    IN \/ /\ \/ << LG_START, node >> \in self.graph.edges
             \/ \E k \in DecisionsOf(r, LG_START) : runs[r].decided[k].returned = node
          /\ state = inputs[r]
       \/ \E j \in 1..(i - 1) :
            /\ \/ << calls[r][j].node, node >> \in self.graph.edges
               \/ \E k \in DecisionsOf(r, calls[r][j].node) :
                    CallBefore(r, k) = j /\ runs[r].decided[k].returned = node
            /\ state.visits > calls[r][j].object.state.visits
BackEdgeFollowed ==
  \E r \in DOMAIN runs :
    /\ self.impl.name = "looped"
    /\ Len(calls[r]) >= 4
    /\ calls[r][3].node = "Three"
    /\ calls[r][4].node = "One"
    /\ calls[r][4].object.state = Visited(inputs[r], 3)

\* C30: when the siblings of a fan-out write different fields, the state
\* merged at the fan-in and the result of the call are the same whichever
\* sibling completes first
DisjointWritesCommute ==
  \A r \in DOMAIN runs :
    self.impl.name = "disjoint" =>
      /\ Invoked(r, "Three") # {} =>
           FirstState(r, "Three") = SimpleTestGraphState(inputs[r].visits + 1, TRUE)
      /\ runs[r].status = "done" =>
           runs[r].channels = [visits |-> inputs[r].visits + 2, should_end |-> TRUE]
      /\ pc = "returned" => output[r] = SimpleTestGraphState(inputs[r].visits + 2, TRUE)
BothOrdersSameResult ==
  /\ self.impl.name = "disjoint"
  /\ pc = "returned"
  /\ Len(inputs) = 2
  /\ inputs[1] = inputs[2]
  /\ calls[1][1].node = "One" /\ calls[1][2].node = "Two"
  /\ calls[2][1].node = "Two" /\ calls[2][2].node = "One"
  /\ output[1] = output[2]

\* the value the action of the i-th logged call of run r wrote to visits
WrittenAt(r, i) == UpdateOf(calls[r][i]).visits.new

\* C31: siblings that write the same field have their updates applied in the
\* order they complete: with OverwriteChange the merged value is the one of the
\* sibling that completed last, and no conflict error is raised
LastCompletedWins ==
  \A r \in DOMAIN runs :
    /\ runs[r].status # "error"
    /\ Invoked(r, "Three") # {} => FirstState(r, "Three").visits = WrittenAt(r, 2)
\* C31 as the code has it: the updates of siblings that write the same field are
\* applied one after another in the order of the names of their nodes, whichever
\* completed first: the merged value is the one written by the sibling whose
\* name sorts last, and no conflict error is raised
LastNamedWins ==
  \A r \in DOMAIN runs :
    /\ runs[r].status # "error"
    /\ Invoked(r, "Three") # {} =>
         /\ {calls[r][1].node, calls[r][2].node} = {"One", "Two"}
         /\ FirstState(r, "Three").visits = WrittenAt(r, Nth(Invoked(r, "Two"), 1))
    /\ pc = "returned" =>
         output[r].visits = WrittenAt(r, Nth(Invoked(r, "Two"), 1)) + 1
FirstCompletedWon ==
  \E r \in DOMAIN runs :
    /\ self.impl.name = "conflict"
    /\ Len(calls[r]) = 3
    /\ calls[r][1].node = "Two"
    /\ calls[r][2].node = "One"
    /\ calls[r][3].object.state.visits = 20

\* C32: a descriptor without an edge from START, or without a path to END,
\* becomes an engine without error; what is wrong with it shows only when the
\* engine is called, as a failure of the call
TopologyFailsOnlyWhenCalled ==
  self.impl.name \in {"no_start", "no_end"} =>
    /\ pc # "construction_failed"
    /\ pc # "returned"
\* C32 as the code has it: a descriptor without an edge from START never
\* becomes an engine, its construction raises; a descriptor without a path to
\* END becomes an engine without error, and a call of it returns the state
\* reached when no node was left to run (One and Two each ran once)
EntrypointCheckedEndUnchecked ==
  /\ self.impl.name = "no_start" =>
       /\ pc \in {"new", "construction_failed"}
       /\ pc = "construction_failed" => error = EntrypointError
       /\ self.graph = NoGraph
       /\ runs = << >>
  /\ self.impl.name = "no_end" =>
       /\ pc \notin {"construction_failed", "raised"}
       /\ \A r \in DOMAIN runs : runs[r].status # "error" /\ ~runs[r].reached_end
       /\ pc = "returned" =>
            \A r \in DOMAIN inputs :
              /\ output[r] = Visited(inputs[r], 2)
              /\ CallLog(r) = << Called("One", inputs[r]),
                                 Called("Two", Visited(inputs[r], 1)) >>
NoEntrypointRefused ==
  /\ self.impl.name = "no_start"
  /\ pc = "construction_failed"
  /\ error = EntrypointError

\* C33: whatever step or sentinel x is, the node name a dynamic edge's
\* decision resolves to when it returns x is the name under which x was
\* registered as a node or as the end of a static edge: one table, with the
\* member's name as fallback; with the engine's table START and END resolve to
\* the backend's start and end sentinels both times
DispatchNameIsRegisteredName ==
  merge.op = "resolve" =>
    /\ merge.returned = merge.registered
    /\ merge.overrides = NoOverrides =>
         merge.registered = (IF merge.step = START THEN LG_START
                             ELSE IF merge.step = END THEN LG_END
                             ELSE merge.step)
    /\ merge.overrides = NoOverrides => merge.registered = NodeName(merge.step)
RenamedSentinelResolved ==
  /\ merge.op = "resolve"
  /\ merge.step = END
  /\ merge.overrides # NoOverrides
  /\ merge.returned = "finish"

\* C34: construction asks implementation_for once for every member of steps_type
\* and compiles once; afterwards no call of invoke, batch, async_invoke or
\* async_batch, and no step of a run, changes the engine: the compiled graph and
\* the action bound to each node stay what construction made them
ResolvedOnceAtConstruction ==
  [][/\ (pc = "new" /\ pc' = "idle") =>
          /\ self'.impl = self.impl
          /\ DOMAIN self'.graph.resolved = self.impl.steps_type
          /\ \A step \in self.impl.steps_type :
                /\ self'.graph.resolved[step] = 1
                /\ self'.graph.nodes[NodeName(step)] = implementation_for(self.impl, step)
     /\ (pc = "new" /\ pc' # "idle") => self' = self
     /\ pc # "new" => (self' = self /\ pc' # "new")]_vars
\* two runs of a batch have returned from an engine whose steps were resolved once
BatchRanOnResolvedOnce ==
  /\ pc = "returned"
  /\ mode \in {"batch", "async_batch"}
  /\ Len(inputs) = 2
  /\ \A r \in DOMAIN calls : Len(calls[r]) > 0
  /\ \A step \in self.impl.steps_type : self.graph.resolved[step] = 1
\* C35: a step with a static edge to END and a static edge to a step X that has
\* no outgoing edge: in every run X is invoked at most once, after the first
\* step and on the state the first step left; every call that has started
\* returns, and when it has returned X was invoked exactly once in every run
\* and the returned state holds X's update on top of the first step's
LastStepRunsOnceBesideEnd ==
  /\ [](\A r \in DOMAIN runs :
          /\ Cardinality(Invoked(r, "Two")) <= 1
          /\ Len(calls[r]) <= 2
          /\ \A i \in Invoked(r, "Two") :
                /\ i = 2 /\ calls[r][1].node = "One"
                /\ CallLog(r)[i].state = Visited(inputs[r], 1)
          /\ pc = "returned" =>
                /\ Cardinality(Invoked(r, "Two")) = 1
                /\ runs[r].reached_end /\ runs[r].status = "done"
                /\ output[r] = Visited(inputs[r], 2))
  /\ ((pc = "running") ~> (pc = "returned"))
\* an awaited call has returned the state that holds the last step's update
LastStepUpdateReturned ==
  /\ pc = "returned" /\ mode = "async_invoke"
  /\ Invoked(1, "Two") = {2}
  /\ runs[1].reached_end
  /\ output[1] = Visited(inputs[1], 2)
\* C36: when new is a NoChange, an OverwriteChange or a ReducerChange,
\* apply_changeset raises nothing and returns new.apply(current) with the flag
\* raise_exception_on_unrecognized on as with it off, and default_change is
\* not called
FlagIgnoredForChangeSets ==
  (merge.op = "apply_changeset" /\ IsChangeSet(merge.new)) =>
    LET flipped == apply_changeset(merge.current, merge.new, merge.default_change,
                                   ~merge.raise_exception_on_unrecognized)
    IN /\ ~merge.raised /\ merge.error = NoError
       /\ merge.value = apply(merge.new, merge.current)
       /\ ~flipped.raised /\ flipped.value = merge.value
       /\ \A i \in DOMAIN merge.calls : merge.calls[i].callee # "default_change"
\* a ReducerChange was applied in strict mode and changed the value
StrictCallAppliedReducer ==
  /\ merge.op = "apply_changeset" /\ merge.new.kind = "ReducerChange"
  /\ merge.raise_exception_on_unrecognized /\ ~merge.raised
  /\ merge.value # merge.current
\* C37: an entry of graph_edges that is no static and no dynamic edge of the
\* backend that builds the graph is passed over: building and compiling raise
\* nothing, and the compiled graph has exactly the edges of the static entries
\* and the branches of the dynamic entries around it, none from the foreign
\* entry, wherever it stands; in the agentic backend and in the older one
ForeignEntryIsSkipped ==
  merge.op = "build" =>
    LET static == IF merge.backend = "agentic" THEN "GraphEdge" ELSE "PipelineEdge"
        dynamic == IF merge.backend = "agentic" THEN "DynamicGraphEdge"
                   ELSE "DynamicPipelineEdge"
    IN /\ ~merge.raised /\ merge.error = NoError
       /\ merge.graph.edges =
            {<<NodeName(e.start), NodeName(e.end)>> :
               e \in {x \in Range(merge.declared) : x.type = static}}
       /\ merge.graph.branches =
            {<<NodeName(e.start), e.end>> :
               e \in {x \in Range(merge.declared) : x.type = dynamic}}
       /\ <<NodeName(merge.entry.start), NodeName(merge.entry.end)>> \notin merge.graph.edges
       /\ Cardinality(merge.graph.edges) + Cardinality(merge.graph.branches)
            = Len(merge.declared)
\* the older backend built a graph from edges with an edge of the newer
\* backend's class in their middle
OlderBackendSkippedNewerEdge ==
  /\ merge.op = "build" /\ merge.backend = "legacy"
  /\ merge.entry = GraphEdge("Three", "One") /\ merge.position = 2
  /\ ~merge.raised
  /\ Cardinality(merge.graph.edges) = 4
====
